---- MODULE Spec2Model ----
(***************************************************************************)
(* A model of the two MATLAB drivers of projects/01_tau_asymmetry:         *)
(*   - the SILA driver (read BF2 table, train SILA, per-subject estimates, *)
(*     write results, plots), and                                          *)
(*   - the NBS driver (assemble connectomes and design matrix, NBSrun,     *)
(*     export of the results found in the global nbs).                     *)
(* Values are in thousandths (1.033 is 1033), ages in years, times in      *)
(* thousandths of a year.                                                  *)
(***************************************************************************)
EXTENDS Integers, Sequences, FiniteSets, TLC

VARIABLES
    pc,        \* position of the SILA driver in its script
    inFile,    \* the input csv: [cols, rows]
    t_all,     \* readtable(input_fname)
    t,         \* the working table (subid, age, val)
    plotsDir,  \* whether plots_dir exists
    tsila,     \* canonical trajectory returned by SILA
    tdrs,      \* discrete rate sampling curve returned by SILA
    sila_out,  \* table returned by SILA_estimate
    outFiles,  \* files written by the run: name -> content
    io,        \* log of the run's file and toolbox events, in order
    callArgs   \* arguments handed to SILA and SILA_estimate

silaVars == <<pc, inFile, t_all, t, plotsDir, tsila, tdrs, sila_out,
              outFiles, io, callArgs>>

VARIABLES
    nbsPc,      \* position of the NBS driver in its script ("idle": not running)
    runNo,      \* number of runs of the NBS driver started in this MATLAB session
    cfg,        \* the run's parameters and inputs: groups and the group sizes
    corr,       \* cat(3, corr_1, corr_2): one slice per subject
    design_mat, \* the design matrix, one row per subject
    tempFiles,  \* design and connectivity files saved for NBSrun
    nbs,        \* the toolbox's global results structure
    extracted,  \* n_components, adj_mat, pval, ... read by the driver
    exports     \* files saved to the output directory: name -> content

nbsVars == <<nbsPc, runNo, cfg, corr, design_mat, tempFiles, nbs, extracted,
             exports>>

VARIABLES
    nbPc,       \* position of the pre-NBS notebook in its cells
    df_ad,      \* the cross-sectional dataframe read by the notebook
    dfs,        \* the group dataframes df_A, df_LA, df_S, df_RA
    nbsIn       \* files saved to the NBS input directory: name -> content

prepVars == <<nbPc, df_ad, dfs, nbsIn>>

vars == <<silaVars, nbsVars, prepVars>>

----------------------------------------------------------------------------
(* Bounds of the input tables explored.                                    *)

MaxRows == 3

(* A missing value (NaN) in a numeric column.                              *)
NaN == -1

(* Parameters set at the top of the script.                                *)
ROI == "fnc_late_amyloid_right"
cutoff == 1033
ylimit == 3000

RequiredCols == {"sid", "age", ROI}
AllCols == RequiredCols \cup {"fnc_late_amyloid_left"}

(* The subject ids deleted after rmmissing.                                *)
Denylist == {2204, 2485}

(* GMM cut-offs printed by the pre-SILA notebook (sanity check only).      *)
GMMCutoffs == {1037, 1025, 1068, 1031, 1059}

----------------------------------------------------------------------------
(* Input tables: each row is a visit; visits are one year apart.           *)

Sids == {1, 2}
Vals == {1000, 1100, 1300}

RowKinds ==
    [sid : Sids, age : {0}, roi : Vals, other : {1100}]
    \cup [sid : Denylist, age : {0}, roi : {1100}, other : {1100}]
    \cup { [sid |-> NaN, age |-> 0, roi |-> 1100, other |-> 1100],
           [sid |-> 1, age |-> NaN, roi |-> 1100, other |-> 1100],
           [sid |-> 1, age |-> 0, roi |-> NaN, other |-> 1100],
           [sid |-> 1, age |-> 0, roi |-> 1100, other |-> NaN] }

MkRows(f) ==
    [i \in DOMAIN f |->
        [f[i] EXCEPT !.age = IF f[i].age = NaN THEN NaN ELSE 70 + i]]

Tables == UNION { { MkRows(f) : f \in [1..n -> RowKinds] } : n \in 0..MaxRows }

ColChoices == {AllCols} \cup { AllCols \ {c} : c \in RequiredCols }

----------------------------------------------------------------------------
(* Table helpers of the driver.                                            *)

(* t_all(:,{'sid' 'age' ROI}) with the columns renamed subid, age, val.    *)
SelectVars(rows) ==
    [i \in DOMAIN rows |->
        [subid |-> rows[i].sid, age |-> rows[i].age, val |-> rows[i].roi]]

(* rmmissing: drop every row holding a missing value in any column.        *)
rmmissing(tbl) ==
    SelectSeq(tbl, LAMBDA r : \A f \in DOMAIN r : r[f] # NaN)

(* toDelete = ismember(t.subid,[2204 2485]); t(toDelete,:) = [].           *)
DeleteRows(tbl) ==
    SelectSeq(tbl, LAMBDA r : r.subid \notin Denylist)

----------------------------------------------------------------------------
(* Integer arithmetic.                                                     *)

Abs(x) == IF x < 0 THEN -x ELSE x
Sign(x) == IF x > 0 THEN 1 ELSE IF x < 0 THEN -1 ELSE 0
Div(a, b) == Sign(a) * Sign(b) * (Abs(a) \div Abs(b))

RECURSIVE SumSeq(_)
SumSeq(s) == IF s = <<>> THEN 0 ELSE Head(s) + SumSeq(Tail(s))

RECURSIVE Flatten(_)
Flatten(ss) == IF ss = <<>> THEN <<>> ELSE Head(ss) \o Flatten(Tail(ss))

Reverse(s) == [i \in 1..Len(s) |-> s[Len(s) + 1 - i]]

SetMin(S) == CHOOSE x \in S : \A y \in S : x <= y
SetMax(S) == CHOOSE x \in S : \A y \in S : y <= x

RECURSIVE SortedSeq(_)
SortedSeq(S) ==
    IF S = {} THEN <<>> ELSE <<SetMin(S)>> \o SortedSeq(S \ {SetMin(S)})

----------------------------------------------------------------------------
(* The trajectory estimator (SILA): rate sampling.                         *)

GridStep == 50
Bandwidth == 50
MinSupport == 1

Subjects(tbl) == { tbl[i].subid : i \in DOMAIN tbl }

(* A subject's observations, ordered by age.                               *)
RECURSIVE SortByAge(_)
SortByAge(obs) ==
    IF obs = <<>> THEN <<>>
    ELSE LET m == SetMin({ obs[i].age : i \in DOMAIN obs })
             k == SetMin({ i \in DOMAIN obs : obs[i].age = m })
         IN  <<obs[k]>> \o SortByAge(SubSeq(obs, 1, k - 1)
                                     \o SubSeq(obs, k + 1, Len(obs)))

ObsOf(tbl, s) == SortByAge(SelectSeq(tbl, LAMBDA r : r.subid = s))

(* One sample per consecutive pair of a subject's observations.            *)
SubjectSamples(obs) ==
    [i \in 1..(Len(obs) - 1) |->
        [subid |-> obs[i].subid,
         val   |-> (obs[i].val + obs[i + 1].val) \div 2,
         rate  |-> Div(obs[i + 1].val - obs[i].val,
                       obs[i + 1].age - obs[i].age)]]

RateSamples(tbl) ==
    LET subs == SortedSeq(Subjects(tbl))
    IN  Flatten([k \in DOMAIN subs |-> SubjectSamples(ObsOf(tbl, subs[k]))])

Near(samples, v) ==
    SelectSeq(samples, LAMBDA s : Abs(s.val - v) <= Bandwidth)

Supported(samples, v) == Len(Near(samples, v)) >= MinSupport

RateAt(samples, v) ==
    LET near == Near(samples, v)
    IN  Div(SumSeq([i \in DOMAIN near |-> near[i].rate]), Len(near))

CIAt(samples, v) ==
    LET near  == Near(samples, v)
        rates == { near[i].rate : i \in DOMAIN near }
    IN  (SetMax(rates) - SetMin(rates)) \div 2

(* The regular grid of values spanning the observed range.                 *)
Grid(tbl) ==
    IF tbl = <<>> THEN <<>>
    ELSE LET vs == { tbl[i].val : i \in DOMAIN tbl }
             lo == SetMin(vs)
             hi == SetMax(vs)
         IN  [k \in 1..((hi - lo) \div GridStep + 1) |-> lo + (k - 1) * GridStep]

(* The smoothed rate curve: grid points without support are left out.      *)
RateCurve(tbl) ==
    LET samples == RateSamples(tbl)
        grid    == SelectSeq(Grid(tbl), LAMBDA g : Supported(samples, g))
    IN  [k \in DOMAIN grid |->
            [val  |-> grid[k],
             rate |-> RateAt(samples, grid[k]),
             ci   |-> CIAt(samples, grid[k])]]

----------------------------------------------------------------------------
(* The trajectory estimator (SILA): curve integration.                     *)

(* Variant: the walk goes on through a zero or sign-changed rate.          *)
RECURSIVE WalkThrough(_, _, _, _, _)
WalkThrough(samples, pts, prevV, prevT, ref) ==
    IF pts = <<>> THEN <<>>
    ELSE LET g == Head(pts)
         IN  IF ~Supported(samples, g) \/ RateAt(samples, g) = 0
             THEN <<>>
             ELSE LET tm == prevT + Div((g - prevV) * 1000, RateAt(samples, g))
                  IN  <<[adtime |-> tm, val |-> g]>>
                      \o WalkThrough(samples, Tail(pts), g, tm, ref)

(* Walk the grid points pts outward from (prevT, prevV), accumulating      *)
(* time = dvalue / rate per step; stop at the first grid point without     *)
(* support or where the rate is zero or has changed sign.                  *)
RECURSIVE Walk(_, _, _, _, _)
Walk(samples, pts, prevV, prevT, ref) ==
    IF pts = <<>> THEN <<>>
    ELSE LET g == Head(pts)
         IN  IF ~Supported(samples, g) \/ Sign(RateAt(samples, g)) # ref
             THEN <<>>
             ELSE LET tm == prevT + Div((g - prevV) * 1000, RateAt(samples, g))
                  IN  <<[adtime |-> tm, val |-> g]>>
                      \o Walk(samples, Tail(pts), g, tm, ref)

(* The canonical trajectory, ordered by value, time 0 at val0.             *)
Integrate(samples, grid, val0) ==
    LET ref  == IF Supported(samples, val0)
                THEN Sign(RateAt(samples, val0)) ELSE 0
        up   == SelectSeq(grid, LAMBDA g : g > val0)
        down == Reverse(SelectSeq(grid, LAMBDA g : g < val0))
        anchor == <<[adtime |-> 0, val |-> val0]>>
    IN  IF ref = 0 THEN anchor
        ELSE Reverse(Walk(samples, down, val0, 0, ref))
             \o anchor
             \o Walk(samples, up, val0, 0, ref)

(* [tsila,tdrs] = SILA(age,val,subid,dt,val0,maxi)                          *)
SILA(tbl, val0) ==
    [tsila |-> Integrate(RateSamples(tbl), Grid(tbl), val0),
     tdrs  |-> RateCurve(tbl)]

----------------------------------------------------------------------------
(* The per-subject projector (SILA_estimate).                              *)

(* Time of value v on the trajectory, by linear interpolation on its value *)
(* axis; a value outside the covered range is flagged extrapolated and     *)
(* given the time of the nearest end.                                      *)
Lookup(traj, v) ==
    LET n == Len(traj)
    IN  IF v < traj[1].val
        THEN [time |-> traj[1].adtime, extrap |-> TRUE]
        ELSE IF v > traj[n].val
        THEN [time |-> traj[n].adtime, extrap |-> TRUE]
        ELSE LET i == SetMax({ j \in 1..n : traj[j].val <= v })
             IN  IF traj[i].val = v
                 THEN [time |-> traj[i].adtime, extrap |-> FALSE]
                 ELSE [time |-> traj[i].adtime
                                + Div((v - traj[i].val)
                                      * (traj[i + 1].adtime - traj[i].adtime),
                                      traj[i + 1].val - traj[i].val),
                       extrap |-> FALSE]

(* The subject's shift between age and trajectory time: the mean of        *)
(* (time - age) over the subject's observations.                           *)
Offset(traj, obs) ==
    Div(SumSeq([j \in DOMAIN obs |->
                   Lookup(traj, obs[j].val).time - obs[j].age * 1000]),
        Len(obs))

EstimateRow(traj, tbl, r) ==
    LET off == Offset(traj, ObsOf(tbl, r.subid))
    IN  [subid    |-> r.subid,
         age      |-> r.age,
         val      |-> r.val,
         estdtt0  |-> r.age * 1000 + off,
         estaget0 |-> -off,
         extrap   |-> Lookup(traj, r.val).extrap]

(* sila_out = SILA_estimate(tsila,age,val,subid): one row per observation. *)
SILA_estimate(traj, tbl) ==
    [i \in DOMAIN tbl |-> EstimateRow(traj, tbl, tbl[i])]

----------------------------------------------------------------------------
(* The SILA driver.                                                        *)

SilaOutFile == "sila_out_fnc_late_amyloid_right.csv"
PlotFile == "threshold_aligned_fnc_late_amyloid_right.pdf"

NoCall == [silaT |-> <<>>, val0 |-> 0, estT |-> <<>>, estTsila |-> <<>>]

InitSILA ==
    /\ pc = "read"
    /\ inFile \in [cols : ColChoices, rows : Tables]
    /\ t_all = [cols |-> {}, rows |-> <<>>]
    /\ t = <<>>
    /\ plotsDir \in BOOLEAN
    /\ tsila = <<>>
    /\ tdrs = <<>>
    /\ sila_out = <<>>
    /\ outFiles = <<>>
    /\ io = <<>>
    /\ callArgs = NoCall

(* t_all = readtable(input_fname)                                          *)
ReadTable ==
    /\ pc = "read"
    /\ UNCHANGED <<nbsVars, prepVars>>
    /\ t_all' = inFile
    /\ io' = Append(io, "read")
    /\ pc' = "select"
    /\ UNCHANGED <<inFile, t, plotsDir, tsila, tdrs, sila_out, outFiles, callArgs>>

(* Variant: a column that is not in the table is read as all-missing.      *)
SelectColumnsLenient ==
    /\ pc = "select"
    /\ UNCHANGED <<nbsVars, prepVars>>
    /\ t' = IF RequiredCols \subseteq t_all.cols
            THEN SelectVars(t_all.rows)
            ELSE [i \in DOMAIN t_all.rows |->
                     [subid |-> NaN, age |-> NaN, val |-> NaN]]
    /\ pc' = "rmmissing"
    /\ UNCHANGED <<inFile, t_all, plotsDir, tsila, tdrs, sila_out, outFiles,
                   io, callArgs>>

(* t = t_all(:,{'sid' 'age' ROI}); an unknown variable name is an error.   *)
SelectColumns ==
    /\ pc = "select"
    /\ UNCHANGED <<nbsVars, prepVars>>
    /\ IF RequiredCols \subseteq t_all.cols
       THEN /\ t' = SelectVars(t_all.rows)
            /\ pc' = "rmmissing"
       ELSE /\ t' = t
            /\ pc' = "error"
    /\ UNCHANGED <<inFile, t_all, plotsDir, tsila, tdrs, sila_out, outFiles,
                   io, callArgs>>

(* Variant: rows with a missing value in any column of t_all are dropped.  *)
RmMissingAllColumns ==
    /\ pc = "rmmissing"
    /\ UNCHANGED <<nbsVars, prepVars>>
    /\ t' = SelectVars(rmmissing(t_all.rows))
    /\ pc' = "delete"
    /\ UNCHANGED <<inFile, t_all, plotsDir, tsila, tdrs, sila_out, outFiles,
                   io, callArgs>>

(* t = rmmissing(t)                                                        *)
RmMissing ==
    /\ pc = "rmmissing"
    /\ UNCHANGED <<nbsVars, prepVars>>
    /\ t' = rmmissing(t)
    /\ pc' = "delete"
    /\ UNCHANGED <<inFile, t_all, plotsDir, tsila, tdrs, sila_out, outFiles,
                   io, callArgs>>

(* t(ismember(t.subid,[2204 2485]),:) = []                                 *)
DeleteExcluded ==
    /\ pc = "delete"
    /\ UNCHANGED <<nbsVars, prepVars>>
    /\ t' = DeleteRows(t)
    /\ pc' = "mkdir"
    /\ UNCHANGED <<inFile, t_all, plotsDir, tsila, tdrs, sila_out, outFiles,
                   io, callArgs>>

(* if ~exist(plots_dir,'dir'), mkdir(plots_dir)                            *)
MakePlotsDir ==
    /\ pc = "mkdir"
    /\ UNCHANGED <<nbsVars, prepVars>>
    /\ plotsDir' = TRUE
    /\ pc' = "train"
    /\ UNCHANGED <<inFile, t_all, t, tsila, tdrs, sila_out, outFiles, io,
                   callArgs>>

(* Variant: the plot limit is handed to SILA as the threshold.             *)
TrainAtYlimit ==
    /\ pc = "train"
    /\ UNCHANGED <<nbsVars, prepVars>>
    /\ tsila' = SILA(t, ylimit).tsila
    /\ tdrs' = SILA(t, ylimit).tdrs
    /\ callArgs' = [callArgs EXCEPT !.silaT = t, !.val0 = ylimit]
    /\ io' = Append(io, "train")
    /\ pc' = "estimate"
    /\ UNCHANGED <<inFile, t_all, t, plotsDir, sila_out, outFiles>>

(* [tsila,tdrs] = SILA(t.age,t.val,t.subid,0.25,cutoff,200)                 *)
Train ==
    /\ pc = "train"
    /\ UNCHANGED <<nbsVars, prepVars>>
    /\ tsila' = SILA(t, cutoff).tsila
    /\ tdrs' = SILA(t, cutoff).tdrs
    /\ callArgs' = [callArgs EXCEPT !.silaT = t, !.val0 = cutoff]
    /\ io' = Append(io, "train")
    /\ pc' = "estimate"
    /\ UNCHANGED <<inFile, t_all, t, plotsDir, sila_out, outFiles>>

(* Variant: only the subjects that contributed a rate sample are estimated. *)
EstimateTrainedOnly ==
    /\ pc = "estimate"
    /\ UNCHANGED <<nbsVars, prepVars>>
    /\ LET multi == SelectSeq(t, LAMBDA r : Len(ObsOf(t, r.subid)) >= 2)
       IN  /\ sila_out' = SILA_estimate(tsila, multi)
           /\ callArgs' = [callArgs EXCEPT !.estT = multi, !.estTsila = tsila]
    /\ io' = Append(io, "estimate")
    /\ pc' = "write"
    /\ UNCHANGED <<inFile, t_all, t, plotsDir, tsila, tdrs, outFiles>>

(* sila_out = SILA_estimate(tsila,t.age,t.val,t.subid)                     *)
Estimate ==
    /\ pc = "estimate"
    /\ UNCHANGED <<nbsVars, prepVars>>
    /\ sila_out' = SILA_estimate(tsila, t)
    /\ callArgs' = [callArgs EXCEPT !.estT = t, !.estTsila = tsila]
    /\ io' = Append(io, "estimate")
    /\ pc' = "write"
    /\ UNCHANGED <<inFile, t_all, t, plotsDir, tsila, tdrs, outFiles>>

(* Variant: the results are written as soon as the model is trained.       *)
WriteTableEarly ==
    /\ pc \in {"estimate", "write"}
    /\ UNCHANGED <<nbsVars, prepVars>>
    /\ outFiles' = (SilaOutFile :> [kind |-> "table", data |-> sila_out]) @@ outFiles
    /\ io' = Append(io, "write")
    /\ pc' = "plots"
    /\ UNCHANGED <<inFile, t_all, t, plotsDir, tsila, tdrs, sila_out, callArgs>>

(* Variant: only the rows inside the plotted range are written.            *)
WriteTablePlotted ==
    /\ pc = "write"
    /\ UNCHANGED <<nbsVars, prepVars>>
    /\ outFiles' = (SilaOutFile :>
                      [kind |-> "table",
                       data |-> SelectSeq(sila_out, LAMBDA r : r.val < ylimit
                                                      /\ ~r.extrap)]) @@ outFiles
    /\ io' = Append(io, "write")
    /\ pc' = "plots"
    /\ UNCHANGED <<inFile, t_all, t, plotsDir, tsila, tdrs, sila_out, callArgs>>

(* Variant: only the five documented columns are written.                  *)
WriteTableFiveColumns ==
    /\ pc = "write"
    /\ UNCHANGED <<nbsVars, prepVars>>
    /\ outFiles' = (SilaOutFile :>
                      [kind |-> "table",
                       data |-> [i \in DOMAIN sila_out |->
                                   [subid    |-> sila_out[i].subid,
                                    age      |-> sila_out[i].age,
                                    val      |-> sila_out[i].val,
                                    estdtt0  |-> sila_out[i].estdtt0,
                                    estaget0 |-> sila_out[i].estaget0]]]) @@ outFiles
    /\ io' = Append(io, "write")
    /\ pc' = "plots"
    /\ UNCHANGED <<inFile, t_all, t, plotsDir, tsila, tdrs, sila_out, callArgs>>

(* writetable(sila_out, file_path)                                         *)
WriteTable ==
    /\ pc = "write"
    /\ UNCHANGED <<nbsVars, prepVars>>
    /\ outFiles' = (SilaOutFile :> [kind |-> "table", data |-> sila_out]) @@ outFiles
    /\ io' = Append(io, "write")
    /\ pc' = "plots"
    /\ UNCHANGED <<inFile, t_all, t, plotsDir, tsila, tdrs, sila_out, callArgs>>

(* Variant: the two curves are saved next to the figure.                   *)
ExportGraphicsAndCurves ==
    /\ pc = "plots"
    /\ UNCHANGED <<nbsVars, prepVars>>
    /\ outFiles' = (PlotFile :> [kind |-> "figure", data |-> <<>>])
                   @@ ("sila_tdrs.csv" :> [kind |-> "table", data |-> tdrs])
                   @@ ("sila_tsila.csv" :> [kind |-> "table", data |-> tsila])
                   @@ outFiles
    /\ io' = Append(io, "plot")
    /\ pc' = "caseplot"
    /\ UNCHANGED <<inFile, t_all, t, plotsDir, tsila, tdrs, sila_out, callArgs>>

(* The three figures of raw data, rate curve and aligned data; the last is *)
(* exported with exportgraphics.                                           *)
ExportGraphics ==
    /\ pc = "plots"
    /\ UNCHANGED <<nbsVars, prepVars>>
    /\ outFiles' = (PlotFile :> [kind |-> "figure", data |-> <<>>]) @@ outFiles
    /\ io' = Append(io, "plot")
    /\ pc' = "caseplot"
    /\ UNCHANGED <<inFile, t_all, t, plotsDir, tsila, tdrs, sila_out, callArgs>>

(* The individual-case figure: sub = find(estdtt0>1 & estdtt0<10,1); the   *)
(* axis limits need increasing ranges of tsila.val and t.age.              *)
CasePlotOk ==
    /\ \E i \in DOMAIN sila_out :
          sila_out[i].estdtt0 > 1000 /\ sila_out[i].estdtt0 < 10000
    /\ tsila[1].val < tsila[Len(tsila)].val
    /\ \E i, j \in DOMAIN t : t[i].age < t[j].age

CasePlot ==
    /\ pc = "caseplot"
    /\ UNCHANGED <<nbsVars, prepVars>>
    /\ pc' = IF CasePlotOk THEN "done" ELSE "error"
    /\ UNCHANGED <<inFile, t_all, t, plotsDir, tsila, tdrs, sila_out, outFiles,
                   io, callArgs>>

NextSILA ==
    \/ ReadTable
    \/ SelectColumns
    \/ RmMissing
    \/ DeleteExcluded
    \/ MakePlotsDir
    \/ Train
    \/ Estimate
    \/ WriteTable
    \/ ExportGraphics
    \/ CasePlot

----------------------------------------------------------------------------
(* The NBS driver. The script is run in a MATLAB session, possibly several *)
(* times with the parameters of its DEFINE block edited between runs; the  *)
(* global nbs outlives a run.                                              *)

MaxRuns == 2
MaxGroup == 2

contrast == <<-1, 1, 0, 0, 0>>
GroupPairs == { <<"S", "LA">>, <<"S", "RA">> }
GroupCode(g) == IF g = "S" THEN 1 ELSE IF g = "LA" THEN 2 ELSE 3

NoCfg == [groups |-> <<"", "">>, use_covars |-> FALSE, n1 |-> 0, n2 |-> 0]
NoNbs == [run |-> 0, groups |-> <<"", "">>, design |-> <<>>]

(* The connectomes of a group as exported by the pre-NBS notebook: one     *)
(* slice per subject of the group's dataframe.                             *)
ConnectomeFile(g, n) == [i \in 1..n |-> [grp |-> g, subj |-> i]]

(* Variant: the covariates are exported without the global tau column.     *)
CovarsFileNoTau(g, n) ==
    [i \in 1..n |-> [c \in 1..2 |-> 100 * GroupCode(g) + 10 * i + c]]

(* The covariates of a group: age, gender, global tau per subject, in the  *)
(* order of the same dataframe.                                            *)
CovarsFile(g, n) ==
    [i \in 1..n |-> [c \in 1..3 |-> 100 * GroupCode(g) + 10 * i + c]]

corr_1 == ConnectomeFile(cfg.groups[1], cfg.n1)
corr_2 == ConnectomeFile(cfg.groups[2], cfg.n2)

InitNBS ==
    /\ nbsPc = "idle"
    /\ runNo = 0
    /\ cfg = NoCfg
    /\ corr = <<>>
    /\ design_mat = <<>>
    /\ tempFiles = [design |-> <<>>, corr |-> <<>>]
    /\ nbs = NoNbs
    /\ extracted = NoNbs
    /\ exports = <<>>

(* The script is started with the parameters of its DEFINE block and the   *)
(* input files of the two groups.                                          *)
StartRun ==
    /\ nbsPc \in {"idle", "error"}
    /\ runNo < MaxRuns
    /\ \E g \in GroupPairs, u \in BOOLEAN, n1 \in 1..MaxGroup, n2 \in 1..MaxGroup :
          cfg' = [groups |-> g, use_covars |-> u, n1 |-> n1, n2 |-> n2]
    /\ runNo' = runNo + 1
    /\ nbsPc' = "load"
    /\ UNCHANGED <<corr, design_mat, tempFiles, nbs, extracted, exports>>
    /\ UNCHANGED <<silaVars, prepVars>>

(* corr = cat(3, corr_1, corr_2)                                           *)
LoadCorr ==
    /\ nbsPc = "load"
    /\ corr' = corr_1 \o corr_2
    /\ nbsPc' = "design"
    /\ UNCHANGED <<runNo, cfg, design_mat, tempFiles, nbs, extracted, exports>>
    /\ UNCHANGED <<silaVars, prepVars>>

(* design_mat = zeros(n1+n2, 2); rows 1..n1 get column 1, the rest column 2 *)
CreateDesign ==
    /\ nbsPc = "design"
    /\ LET len_group_1 == Len(corr_1)
           len_group_2 == Len(corr_2)
       IN  design_mat' = [i \in 1..(len_group_1 + len_group_2) |->
                             IF i <= len_group_1 THEN <<1, 0>> ELSE <<0, 1>>]
    /\ nbsPc' = "covars"
    /\ UNCHANGED <<runNo, cfg, corr, tempFiles, nbs, extracted, exports>>
    /\ UNCHANGED <<silaVars, prepVars>>

(* Variant: the covariates of the second group are stacked first.          *)
AddCovarsSecondFirst ==
    /\ nbsPc = "covars"
    /\ design_mat' =
          IF cfg.use_covars
          THEN LET covars == CovarsFile(cfg.groups[2], cfg.n2)
                             \o CovarsFile(cfg.groups[1], cfg.n1)
               IN  [i \in DOMAIN design_mat |-> design_mat[i] \o covars[i]]
          ELSE design_mat
    /\ nbsPc' = "save"
    /\ UNCHANGED <<runNo, cfg, corr, tempFiles, nbs, extracted, exports>>
    /\ UNCHANGED <<silaVars, prepVars>>

(* if use_covars, design_mat = [design_mat, [covars_1; covars_2]]          *)
AddCovars ==
    /\ nbsPc = "covars"
    /\ design_mat' =
          IF cfg.use_covars
          THEN LET covars == CovarsFile(cfg.groups[1], cfg.n1)
                             \o CovarsFile(cfg.groups[2], cfg.n2)
               IN  [i \in DOMAIN design_mat |-> design_mat[i] \o covars[i]]
          ELSE design_mat
    /\ nbsPc' = "save"
    /\ UNCHANGED <<runNo, cfg, corr, tempFiles, nbs, extracted, exports>>
    /\ UNCHANGED <<silaVars, prepVars>>

(* save(design_mat_file,'design_mat'); save(corr_mat_file,'corr')          *)
SaveTemp ==
    /\ nbsPc = "save"
    /\ tempFiles' = [design |-> design_mat, corr |-> corr]
    /\ nbsPc' = "run"
    /\ UNCHANGED <<runNo, cfg, corr, design_mat, nbs, extracted, exports>>
    /\ UNCHANGED <<silaVars, prepVars>>

(* The toolbox accepts the inputs when the contrast has one entry per      *)
(* column of the design matrix and there is one matrix per design row.     *)
InputsOk ==
    /\ Len(tempFiles.design) = Len(tempFiles.corr)
    /\ \A i \in DOMAIN tempFiles.design :
          Len(tempFiles.design[i]) = Len(contrast)

(* NBSrun(UI,[]): no output argument. With accepted inputs the results are *)
(* stored in the global nbs.                                               *)
NBSrunStores ==
    /\ nbsPc = "run"
    /\ InputsOk
    /\ nbs' = [run |-> runNo, groups |-> cfg.groups, design |-> tempFiles.design]
    /\ nbsPc' = "extract"
    /\ UNCHANGED <<runNo, cfg, corr, design_mat, tempFiles, extracted, exports>>
    /\ UNCHANGED <<silaVars, prepVars>>

(* With rejected inputs the toolbox prints a message and returns, leaving  *)
(* the global nbs as it was.                                               *)
NBSrunStops ==
    /\ nbsPc = "run"
    /\ ~InputsOk
    /\ nbsPc' = "extract"
    /\ UNCHANGED <<runNo, cfg, corr, design_mat, tempFiles, nbs, extracted, exports>>
    /\ UNCHANGED <<silaVars, prepVars>>

(* ... or it raises an error, which ends the script.                       *)
NBSrunFails ==
    /\ nbsPc = "run"
    /\ ~InputsOk
    /\ nbsPc' = "error"
    /\ UNCHANGED <<runNo, cfg, corr, design_mat, tempFiles, nbs, extracted, exports>>
    /\ UNCHANGED <<silaVars, prepVars>>

(* global nbs; n_components = nbs.NBS.n; adj_mat = nbs.NBS.con_mat; ...    *)
(* An empty global has no field NBS: the script ends with an error.        *)
Extract ==
    /\ nbsPc = "extract"
    /\ IF nbs = NoNbs
       THEN /\ nbsPc' = "error"
            /\ extracted' = extracted
       ELSE /\ nbsPc' = "export"
            /\ extracted' = nbs
    /\ UNCHANGED <<runNo, cfg, corr, design_mat, tempFiles, nbs, exports>>
    /\ UNCHANGED <<silaVars, prepVars>>

(* The name of the exported file: atlas, modality, mask, groups, contrast, *)
(* threshold and permutations.                                             *)
ExportName == <<"dk_fc_file", "normal_mask_90", cfg.groups, contrast, "3.0", "5000">>

(* save(export_dir, "contrast","threshold","n_components","adj_mat", ...)  *)
Export ==
    /\ nbsPc = "export"
    /\ exports' = (ExportName :>
                      [run |-> runNo, groups |-> cfg.groups,
                       contrast |-> contrast, results |-> extracted])
                  @@ exports
    /\ nbsPc' = "idle"
    /\ UNCHANGED <<runNo, cfg, corr, design_mat, tempFiles, nbs, extracted>>
    /\ UNCHANGED <<silaVars, prepVars>>

NextNBS ==
    \/ StartRun
    \/ LoadCorr
    \/ CreateDesign
    \/ AddCovars
    \/ SaveTemp
    \/ NBSrunStores
    \/ NBSrunStops
    \/ NBSrunFails
    \/ Extract
    \/ Export

----------------------------------------------------------------------------
(* The pre-NBS notebook: group dataframes, connectomes and covariates.     *)

MaxSubjects == 3

(* The band around zero inside which the laterality index is symmetric.    *)
Band == 1
Indices == -2..2

(* The asymmetry category of a laterality index: outside the band it is    *)
(* left or right asymmetric, inside the band and on its edge symmetric.    *)
Category(index, band) ==
    IF index > band THEN "LA"
    ELSE IF index < -band THEN "RA"
    ELSE "S"

(* The dataset read by the notebook: one row per subject, with the group   *)
(* column and the path of the subject's connectome (missing without MRI).  *)
Datasets ==
    UNION { { [i \in 1..n |->
                  [mid |-> i, li |-> f[i].li, fc |-> f[i].fc,
                   grp |-> Category(f[i].li, Band)]] :
              f \in [1..n -> [li : Indices, fc : BOOLEAN]] } :
            n \in 0..MaxSubjects }

NoDfs == [A |-> <<>>, LA |-> <<>>, S |-> <<>>, RA |-> <<>>]
GroupNames == {"A", "LA", "S", "RA"}
MaskNames == {"no_mask", "normal_mask_90"}

InitNotebook ==
    /\ nbPc = "read"
    /\ df_ad \in Datasets
    /\ dfs = NoDfs
    /\ nbsIn = <<>>

(* The notebook is not run.                                                *)
NotebookIdle ==
    /\ nbPc = "read"
    /\ df_ad = <<>>
    /\ dfs = NoDfs
    /\ nbsIn = <<>>

(* df_ad = pd.read_csv(...); df_ad = df_ad[~df_ad[corr_type].isna()]       *)
ReadDataset ==
    /\ nbPc = "read"
    /\ df_ad' = SelectSeq(df_ad, LAMBDA r : r.fc)
    /\ nbPc' = "split"
    /\ UNCHANGED <<dfs, nbsIn>>
    /\ UNCHANGED <<silaVars, nbsVars>>

(* Variant: df_A is built from the wrong pair of categories.               *)
SplitGroupsWrongPair ==
    /\ nbPc = "split"
    /\ dfs' = [A  |-> SelectSeq(df_ad, LAMBDA r : r.grp \in {"LA", "S"}),
               LA |-> SelectSeq(df_ad, LAMBDA r : r.grp = "LA"),
               S  |-> SelectSeq(df_ad, LAMBDA r : r.grp = "S"),
               RA |-> SelectSeq(df_ad, LAMBDA r : r.grp = "RA")]
    /\ nbPc' = "connectomes"
    /\ UNCHANGED <<df_ad, nbsIn>>
    /\ UNCHANGED <<silaVars, nbsVars>>

(* df_A = df_ad[df_ad[grp_col].isin(['LA','RA'])]; df_LA, df_S, df_RA by   *)
(* equality with the category; each with reset_index(drop=True).           *)
SplitGroups ==
    /\ nbPc = "split"
    /\ dfs' = [A  |-> SelectSeq(df_ad, LAMBDA r : r.grp \in {"LA", "RA"}),
               LA |-> SelectSeq(df_ad, LAMBDA r : r.grp = "LA"),
               S  |-> SelectSeq(df_ad, LAMBDA r : r.grp = "S"),
               RA |-> SelectSeq(df_ad, LAMBDA r : r.grp = "RA")]
    /\ nbPc' = "connectomes"
    /\ UNCHANGED <<df_ad, nbsIn>>
    /\ UNCHANGED <<silaVars, nbsVars>>

(* merge_connectomes: one connectome per row of the dataframe, in its      *)
(* order; the dataframe is returned with it.                               *)
merge_connectomes(df, g) ==
    [df |-> df, connectomes |-> [i \in DOMAIN df |-> [grp |-> g, subj |-> df[i].mid]]]

(* for mask_name, mask in all_masks.items(): merge and savemat per group   *)
ExportConnectomes ==
    /\ nbPc = "connectomes"
    /\ LET first(g) == merge_connectomes(dfs[g], g)
           second(g) == merge_connectomes(first(g).df, g)
       IN  /\ dfs' = [g \in GroupNames |-> second(g).df]
           /\ nbsIn' = [f \in { <<"dk_fc_file", g, m>> : g \in GroupNames, m \in MaskNames } |->
                           IF f[3] = "no_mask"
                           THEN first(f[2]).connectomes
                           ELSE second(f[2]).connectomes]
                       @@ nbsIn
    /\ nbPc' = "covars"
    /\ UNCHANGED df_ad
    /\ UNCHANGED <<silaVars, nbsVars>>

(* df_design_X = df_X[['age','gender_baseline_variable',tau_col]]; savemat *)
CovarsOf(df) ==
    [i \in DOMAIN df |-> [c \in 1..3 |-> 10 * df[i].mid + c]]

ExportCovars ==
    /\ nbPc = "covars"
    /\ nbsIn' = [f \in { <<"covars_fc", g>> : g \in GroupNames } |-> CovarsOf(dfs[f[2]])]
                @@ nbsIn
    /\ nbPc' = "done"
    /\ UNCHANGED <<df_ad, dfs>>
    /\ UNCHANGED <<silaVars, nbsVars>>

NextNotebook ==
    \/ ReadDataset
    \/ SplitGroups
    \/ ExportConnectomes
    \/ ExportCovars

----------------------------------------------------------------------------
(* Positions of the run.                                                   *)

Happened(e) == \E k \in DOMAIN io : io[k] = e
Count(e) == Cardinality({ k \in DOMAIN io : io[k] = e })

(* The data-loading section has run to its end.                            *)
LoadDone ==
    \/ pc \in {"mkdir", "train", "estimate", "write", "plots", "caseplot", "done"}
    \/ pc = "error" /\ Len(io) > 1

(* The rows of the input file the loader is to keep, in file order.        *)
KeptRows ==
    SelectSeq(inFile.rows,
              LAMBDA r : /\ r.sid # NaN /\ r.age # NaN /\ r.roi # NaN
                         /\ r.sid # 2204 /\ r.sid # 2485)

Kept == [i \in DOMAIN KeptRows |->
            [subid |-> KeptRows[i].sid, age |-> KeptRows[i].age,
             val |-> KeptRows[i].roi]]

Triple(r) == <<r.subid, r.age, r.val>>
Times(tbl, x) == Cardinality({ i \in DOMAIN tbl : Triple(tbl[i]) = x })

----------------------------------------------------------------------------
(* C1: once the data-loading section has run, t holds exactly the rows of  *)
(* the input whose sid, age and ROI value are all present and whose sid is *)
(* neither 2204 nor 2485, in file order; and that table is the one handed  *)
(* to SILA and to SILA_estimate.                                           *)
C1_LoaderKeepsExactly ==
    LoadDone =>
        /\ t = Kept
        /\ Happened("train") => callArgs.silaT = Kept
        /\ Happened("estimate") => callArgs.estT = Kept

(* A run past estimation whose input had a kept row, a row missing only in *)
(* a column that is not selected, a row with a missing value and a         *)
(* denylisted row.                                                         *)
C1_Witness ==
    /\ Happened("estimate")
    /\ Len(t) >= 1
    /\ \E i \in DOMAIN inFile.rows : inFile.rows[i].sid \in Denylist
    /\ \E i \in DOMAIN inFile.rows : inFile.rows[i].roi = NaN
    /\ \E i \in DOMAIN inFile.rows : inFile.rows[i].other = NaN

(* C2: the run is one pass read, train, estimate, write: the input is read *)
(* once, the results file is written once, after training and estimation,  *)
(* and nothing is read after a write.                                      *)
C2_OnePass ==
    /\ \E n \in 0..5 : io = SubSeq(<<"read", "train", "estimate", "write", "plot">>, 1, n)
    /\ pc \in {"plots", "caseplot", "done"} =>
          /\ Count("read") = 1 /\ Count("write") = 1
          /\ Happened("train") /\ Happened("estimate")
          /\ SilaOutFile \in DOMAIN outFiles

C2_Witness ==
    /\ pc = "done"
    /\ io = <<"read", "train", "estimate", "write", "plot">>
    /\ Len(outFiles[SilaOutFile].data) = MaxRows

(* C3: when the input lacks sid, age or the ROI column the run ends in an  *)
(* error before training: nothing is trained, estimated or written.        *)
C3_MissingColumnAborts ==
    ~(RequiredCols \subseteq inFile.cols) =>
        /\ pc \in {"read", "select", "error"}
        /\ io \in {<<>>, <<"read">>}
        /\ outFiles = <<>>
        /\ tsila = <<>> /\ sila_out = <<>> /\ callArgs = NoCall

C3_Witness ==
    /\ pc = "error"
    /\ ROI \notin inFile.cols
    /\ Len(inFile.rows) = MaxRows
    /\ io = <<"read">>

(* C4: the results file holds one row per observation kept by the loader,  *)
(* the same multiset of (subid, age, val), each row with the estimated     *)
(* time from threshold and the estimated age at threshold.                 *)
C4_OneRowPerObservation ==
    Happened("write") =>
        LET out == outFiles[SilaOutFile].data
        IN  /\ Len(out) = Len(Kept)
            /\ \A i \in DOMAIN Kept :
                  Times(out, Triple(Kept[i])) = Times(Kept, Triple(Kept[i]))
            /\ \A i \in DOMAIN out :
                  {"subid", "age", "val", "estdtt0", "estaget0"}
                      \subseteq DOMAIN out[i]

(* A written file with a repeated triple is not possible (ages differ), so *)
(* the witness asks for three rows of two subjects, one row filtered out.  *)
C4_Witness ==
    /\ Happened("write")
    /\ Len(outFiles[SilaOutFile].data) = 2
    /\ Len(inFile.rows) = 3
    /\ \E i \in DOMAIN inFile.rows : inFile.rows[i].sid \in Denylist
    /\ outFiles[SilaOutFile].data[1].subid # outFiles[SilaOutFile].data[2].subid
TableFiles == { f \in DOMAIN outFiles : outFiles[f].kind = "table" }

C6_AnchoredAtCutoff ==
    Happened("train") =>
        /\ \E i \in DOMAIN tsila : tsila[i].adtime = 0
        /\ \A i \in DOMAIN tsila :
              tsila[i].adtime = 0 => tsila[i].val = callArgs.val0
        /\ callArgs.val0 = cutoff
        /\ callArgs.val0 \notin GMMCutoffs

C6_Witness ==
    /\ Happened("train")
    /\ Len(tsila) >= 4
    /\ \E i \in DOMAIN tsila : tsila[i].adtime < 0
    /\ \E i \in DOMAIN tsila : tsila[i].adtime = 0 /\ tsila[i].val = 1033

(* C7: along the trajectory (ordered by value, values distinct) the time   *)
(* never decreases, or never increases: value is monotonic in time and the *)
(* value-to-time lookup is single-valued.                                  *)
C7_Monotonic ==
    Happened("train") =>
        /\ \A i, j \in DOMAIN tsila : i < j => tsila[i].val < tsila[j].val
        /\ \/ \A i, j \in DOMAIN tsila :
                 i < j => tsila[i].adtime <= tsila[j].adtime
           \/ \A i, j \in DOMAIN tsila :
                 i < j => tsila[i].adtime >= tsila[j].adtime

(* A trajectory of three points or more that was cut where the rate curve  *)
(* changes sign.                                                           *)
C7_Witness ==
    /\ Happened("train")
    /\ Len(tsila) >= 3
    /\ \E k, l \in DOMAIN tdrs : tdrs[k].rate > 0 /\ tdrs[l].rate < 0

InRange(traj, v) == traj[1].val <= v /\ v <= traj[Len(traj)].val

(* C8: every observation whose value lies outside the range covered by the *)
(* trajectory is flagged extrapolated in the table returned by             *)
(* SILA_estimate and in the file written; the run reaches the write.       *)
C8_OutOfRangeFlagged ==
    /\ Happened("estimate") =>
          /\ Len(sila_out) = Len(t)
          /\ \A i \in DOMAIN sila_out :
                ~InRange(tsila, t[i].val) => sila_out[i].extrap
    /\ Happened("write") =>
          LET out == outFiles[SilaOutFile].data
          IN  /\ Len(out) = Len(t)
              /\ \A i \in DOMAIN out :
                    ~InRange(tsila, t[i].val) =>
                        "extrap" \in DOMAIN out[i] /\ out[i].extrap
    /\ (pc = "error" /\ Len(io) > 1) => Happened("write")

C8_Witness ==
    /\ Happened("write")
    /\ Len(tsila) >= 3
    /\ \E i \in DOMAIN t : t[i].val > tsila[Len(tsila)].val
    /\ \E i \in DOMAIN t : InRange(tsila, t[i].val)
                           /\ ~outFiles[SilaOutFile].data[i].extrap

(* C9: a subject with n observations gives n-1 rate samples, none when     *)
(* n = 1; a subject with one observation is still in the table handed to   *)
(* SILA_estimate and has its row in the estimates, and the run has not     *)
(* failed by then.                                                         *)
C9_SingleObservation ==
    /\ Happened("train") =>
          \A s \in Subjects(callArgs.silaT) :
              Cardinality({ k \in DOMAIN RateSamples(callArgs.silaT) :
                              RateSamples(callArgs.silaT)[k].subid = s })
                  = Len(ObsOf(callArgs.silaT, s)) - 1
    /\ Happened("estimate") =>
          /\ pc # "error" \/ Happened("write")
          /\ \A s \in Subjects(Kept) :
                Len(ObsOf(Kept, s)) = 1 =>
                    /\ Len(ObsOf(callArgs.estT, s)) = 1
                    /\ Len(ObsOf(sila_out, s)) = 1

C9_Witness ==
    /\ Happened("estimate")
    /\ \E s \in Subjects(t) : Len(ObsOf(t, s)) = 1 /\ Len(ObsOf(sila_out, s)) = 1
    /\ \E s \in Subjects(t) : Len(ObsOf(t, s)) = 2
    /\ Len(RateSamples(t)) = 1
----------------------------------------------------------------------------
----------------------------------------------------------------------------
Mids(df) == { df[i].mid : i \in DOMAIN df }

(* C11: the category is a function of the laterality index and the band    *)
(* alone, one of LA, S, RA for every subject, S on the edge of the band;   *)
(* the subject sets of df_LA, df_S and df_RA are pairwise disjoint, cover  *)
(* the subjects with MRI, and df_A holds exactly those of df_LA and df_RA. *)
C11_CategoriesPartition ==
    nbPc \in {"connectomes", "covars", "done"} =>
        /\ \A i \in DOMAIN df_ad :
              /\ df_ad[i].grp \in {"LA", "S", "RA"}
              /\ df_ad[i].grp = Category(df_ad[i].li, Band)
              /\ (df_ad[i].li = Band \/ df_ad[i].li = -Band) => df_ad[i].grp = "S"
              /\ Cardinality({ g \in {"LA", "S", "RA"} :
                                 df_ad[i].mid \in Mids(dfs[g]) }) = 1
              /\ \A g \in {"LA", "S", "RA"} :
                    df_ad[i].mid \in Mids(dfs[g]) <=> df_ad[i].grp = g
        /\ \A i, j \in DOMAIN df_ad :
              df_ad[i].li = df_ad[j].li => df_ad[i].grp = df_ad[j].grp
        /\ Mids(dfs.LA) \cap Mids(dfs.S) = {}
        /\ Mids(dfs.LA) \cap Mids(dfs.RA) = {}
        /\ Mids(dfs.S) \cap Mids(dfs.RA) = {}
        /\ Mids(dfs.A) = Mids(dfs.LA) \cup Mids(dfs.RA)
        /\ Len(dfs.A) = Len(dfs.LA) + Len(dfs.RA)

(* All three groups are populated, one subject sits on the edge of the     *)
(* band, and the files have been exported.                                 *)
C11_Witness ==
    /\ nbPc = "done"
    /\ Len(dfs.LA) = 1 /\ Len(dfs.RA) = 1 /\ Len(dfs.S) = 1
    /\ dfs.S[1].li = Band
    /\ Len(dfs.A) = 2

----------------------------------------------------------------------------
Assembled == nbsPc \in {"save", "run", "extract", "export"}
GroupOfRow(i) == IF i <= cfg.n1 THEN cfg.groups[1] ELSE cfg.groups[2]
SubjectOfRow(i) == IF i <= cfg.n1 THEN i ELSE i - cfg.n1

(* C12: once assembled, the design matrix has n1+n2 rows, rows 1..n1       *)
(* start with [1 0] and the others with [0 1], and row i of the design     *)
(* matrix, row i of the stacked covariates and slice i of the stacked      *)
(* connectivity array belong to the same subject of the same group.        *)
C12_RowsAligned ==
    Assembled =>
        /\ cfg.n1 >= 1 /\ cfg.n2 >= 1
        /\ Len(design_mat) = cfg.n1 + cfg.n2
        /\ Len(corr) = cfg.n1 + cfg.n2
        /\ \A i \in 1..(cfg.n1 + cfg.n2) :
              /\ SubSeq(design_mat[i], 1, 2) = (IF i <= cfg.n1 THEN <<1, 0>> ELSE <<0, 1>>)
              /\ corr[i].grp = GroupOfRow(i)
              /\ corr[i].subj = SubjectOfRow(i)
              /\ cfg.use_covars =>
                    \A k \in 3..Len(design_mat[i]) :
                        /\ design_mat[i][k] \div 100 = GroupCode(corr[i].grp)
                        /\ (design_mat[i][k] % 100) \div 10 = corr[i].subj
                        /\ design_mat[i][k] % 10 = k - 2

(* A second run with covariates and groups of different sizes reaches the  *)
(* toolbox call.                                                           *)
C12_Witness ==
    /\ nbsPc = "run"
    /\ runNo = 2
    /\ cfg.use_covars
    /\ cfg.n1 = 2 /\ cfg.n2 = 1
    /\ cfg.groups = <<"S", "RA">>
    /\ Len(tempFiles.design) = 3
    /\ Len(tempFiles.design[3]) = 5

(* C13: with covariates the design matrix handed to the toolbox has five   *)
(* columns, as many as the contrast has entries, and the contrast weighs   *)
(* the two group columns only.                                             *)
C13_ContrastMatchesDesign ==
    (Assembled /\ cfg.use_covars) =>
        /\ \A i \in DOMAIN design_mat :
              /\ Len(design_mat[i]) = 2 + 3
              /\ Len(design_mat[i]) = Len(contrast)
        /\ nbsPc \in {"run", "extract", "export"} => tempFiles.design = design_mat
        /\ contrast[1] # 0 /\ contrast[2] # 0
        /\ \A k \in 3..Len(contrast) : contrast[k] = 0

(* The toolbox has accepted a design with covariates.                      *)
C13_Witness ==
    /\ nbsPc = "extract"
    /\ cfg.use_covars
    /\ nbs.run = runNo
    /\ nbs.design = design_mat
    /\ Len(design_mat) = 4

----------------------------------------------------------------------------
(* The SILA driver, run once on an input file.                             *)
Init ==
    /\ InitSILA
    /\ InitNBS
    /\ NotebookIdle

Next == NextSILA

Spec == Init /\ [][Next]_vars

(* A MATLAB session in which the NBS driver is run up to MaxRuns times.    *)
InitSession ==
    /\ InitNBS
    /\ NotebookIdle
    /\ pc = "read"
    /\ inFile = [cols |-> AllCols, rows |-> <<>>]
    /\ t_all = [cols |-> {}, rows |-> <<>>]
    /\ t = <<>>
    /\ plotsDir = FALSE
    /\ tsila = <<>>
    /\ tdrs = <<>>
    /\ sila_out = <<>>
    /\ outFiles = <<>>
    /\ io = <<>>
    /\ callArgs = NoCall

SpecNBS == InitSession /\ [][NextNBS]_vars

(* The pre-NBS notebook, run once on a dataset.                            *)
NoSilaRun ==
    /\ pc = "read"
    /\ inFile = [cols |-> AllCols, rows |-> <<>>]
    /\ t_all = [cols |-> {}, rows |-> <<>>]
    /\ t = <<>>
    /\ plotsDir = FALSE
    /\ tsila = <<>>
    /\ tdrs = <<>>
    /\ sila_out = <<>>
    /\ outFiles = <<>>
    /\ io = <<>>
    /\ callArgs = NoCall

InitPreNBS ==
    /\ InitNotebook
    /\ InitNBS
    /\ NoSilaRun

SpecPreNBS == InitPreNBS /\ [][NextNotebook]_vars
====
